---- MODULE Spec2Model ----
(***************************************************************************)
(* Hook persistence of rhachet-brains-anthropic: the claude code hooks     *)
(* adapter (get.one, get.all, set.findsert, set.upsert, del), the hook     *)
(* translator it uses, and the settings store (.claude/settings.json).     *)
(*                                                                         *)
(* An optional value (an optional field of an object, a value that may be  *)
(* undefined) is a sequence of length 0 or 1: None or Some(x).             *)
(***************************************************************************)
EXTENDS Integers, Sequences, FiniteSets, TLC

VARIABLES
    file,       \* .claude/settings.json: [kind, doc], kind "missing" or "json"
    dirExists,  \* whether the .claude directory exists
    shadow,     \* history: the hooks upserted and not deleted since
    op,         \* history: the operation that ran last, [name, key, prior]
    left,       \* operations the run may still make
    arg,        \* the hook handed to the translator, when it runs alone
    inflight,   \* per adapter instance, the call it has begun and not ended
    log,        \* history: the calls that ended, in the order they ended
    ret,        \* what the operation that ran last returned
    thrown,     \* the error the operation that ran last threw, None for none
    transport   \* calls made to the inference transport

vars == <<file, dirExists, shadow, op, left, arg, inflight, log, ret, thrown,
          transport>>

None == <<>>
Some(x) == <<x>>

----------------------------------------------------------------------------
(* Bounds of the model. *)

\* sequential operations of one run
MaxOps == 2
\* size of a hand-written (drifted) grouping-entry list: every grouping
\* entry counts for the number of its records, an empty one for 1
MaxDrift == 2

\* the messages of an agent message stream, at most
MaxStream == 3

\* calls made through the adapter instances of one repoPath, overlapping
\* or not
MaxCalls == 3

----------------------------------------------------------------------------
(* Values the operations are called with. *)

Authors == {"repo=x/role=mechanic", "unknown"}
Events == {"onBoot", "onTool", "onStop"}
Commands == {"echo hi", "echo bye"}
Whats == {"*", "Write"}
Filters == {None} \cup {Some(w) : w \in Whats}
\* IsoDuration: 400 ms and 1600 ms
Timeouts ==
    { [seconds |-> 0, milliseconds |-> 400],
      [seconds |-> 1, milliseconds |-> 600] }

Hooks ==
    [author : Authors, event : Events, command : Commands,
     timeout : Timeouts, filter : Filters]

Keys == [author : Authors, event : Events, command : Commands]

KeyOf(h) == [author |-> h.author, event |-> h.event, command |-> h.command]

----------------------------------------------------------------------------
(* translateHook.ts *)

EVENT_MAP(event) ==
    CASE event = "onBoot" -> "SessionStart"
      [] event = "onTool" -> "PreToolUse"
      [] event = "onStop" -> "Stop"

ManagedEvents == {EVENT_MAP(e) : e \in Events}

\* REVERSE_EVENT_MAP is an object literal: besides its three own keys, a
\* lookup finds the members it inherits from Object.prototype, which are
\* functions or objects, hence truthy.
ObjectPrototypeKeys ==
    {"constructor", "toString", "toLocaleString", "valueOf", "hasOwnProperty",
     "isPrototypeOf", "propertyIsEnumerable", "__proto__"}

\* the value found under `name`, None when the lookup gives undefined
REVERSE_EVENT_MAP(name) ==
    CASE name = "SessionStart" -> Some("onBoot")
      [] name = "PreToolUse" -> Some("onTool")
      [] name = "Stop" -> Some("onStop")
      [] name \in ObjectPrototypeKeys -> Some("Object.prototype." \o name)
      [] OTHER -> None

\* iso-time toMilliseconds of an IsoDuration
toMilliseconds(d) == d.seconds * 1000 + d.milliseconds

\* Math.round(num / den) for num >= 0, den > 0: halves round up
MathRound(num, den) == (2 * num + den) \div (2 * den)

DEFAULT_TIMEOUT_SECONDS == 30

\* hook.filter?.what ?? '*'
MatcherOf(filter) == IF filter = None THEN "*" ELSE filter[1]

translateHookToClaudeCode(hook) ==
    LET matcher == MatcherOf(hook.filter)
        timeoutSeconds == MathRound(toMilliseconds(hook.timeout), 1000)
    IN  [ event |-> EVENT_MAP(hook.event),
          matcher |-> matcher,
          hook |-> [ type |-> "command",
                     command |-> hook.command,
                     timeout |-> IF timeoutSeconds = 0 THEN None
                                 ELSE Some(timeoutSeconds),
                     author |-> Some(hook.author) ] ]

translateHookFromClaudeCode(event, entry) ==
    LET rhachetEvent == REVERSE_EVENT_MAP(event)
        one(h) ==
            [ author |-> IF h.author = None THEN "unknown" ELSE h.author[1],
              event |-> rhachetEvent[1],
              command |-> h.command,
              timeout |-> IF h.timeout # None /\ h.timeout[1] # 0
                          THEN [seconds |-> h.timeout[1], milliseconds |-> 0]
                          ELSE [seconds |-> DEFAULT_TIMEOUT_SECONDS,
                                milliseconds |-> 0],
              filter |-> IF entry.matcher # "*" THEN Some(entry.matcher)
                         ELSE None ]
    IN  IF rhachetEvent = None THEN <<>>
        ELSE [i \in 1..Len(entry.hooks) |-> one(entry.hooks[i])]

----------------------------------------------------------------------------
(* config.dao.ts: the settings store.  A settings document is                *)
(* [hooks, other]: the optional `hooks` section, a sequence of               *)
(* [name, entries] in key order, and the other top-level fields as one       *)
(* opaque optional value.  A grouping entry is [matcher, hooks]; a record    *)
(* of its hook list is [type, command, timeout, author], timeout and         *)
(* author optional.                                                          *)

EmptySettings == [hooks |-> None, other |-> None]

Missing == [kind |-> "missing", doc |-> EmptySettings]

Stored(settings) == [kind |-> "json", doc |-> settings]

\* a file whose content is not JSON
Malformed == [kind |-> "malformed", doc |-> EmptySettings]

\* a faulty read: a missing file is read like any other, and that fails
ReadThrows_OnMissing(f) == f.kind # "json"

\* a faulty read: content that does not parse is taken for {}
ReadThrows_Never(f) == FALSE

\* whether readClaudeCodeSettings throws: fs.access succeeds and
\* JSON.parse of the content fails
ReadThrows(f) == f.kind = "malformed"

\* fs.access fails: {}; otherwise the parsed content
readClaudeCodeSettings(f) ==
    IF f.kind = "missing" THEN EmptySettings ELSE f.doc

\* mkdir -p .claude, then the whole document is written
writeClaudeCodeSettings(settings) ==
    [file |-> Stored(settings), dirExists |-> TRUE]

----------------------------------------------------------------------------
(* Objects as key-ordered sequences of [name, entries]. *)

\* findIndex, given the outcome of the test on each element: the first
\* place that holds TRUE, 0 when there is none (findIndex gives -1)
FindIndex(tests) ==
    IF \E i \in 1..Len(tests) : tests[i]
    THEN CHOOSE i \in 1..Len(tests) :
            tests[i] /\ \A j \in 1..(i - 1) : ~tests[j]
    ELSE 0

\* splice(index, 1)
Splice(s, index) ==
    [i \in 1..(Len(s) - 1) |-> IF i < index THEN s[i] ELSE s[i + 1]]

\* settings.hooks ?? {}
hooksSectionOf(settings) ==
    IF settings.hooks = None THEN <<>> ELSE settings.hooks[1]

HasKey(section, name) == \E i \in 1..Len(section) : section[i].name = name

\* hooksSection[name] ?? []
eventHooksOf(section, name) ==
    IF HasKey(section, name)
    THEN section[FindIndex([i \in 1..Len(section) |->
                                section[i].name = name])].entries
    ELSE <<>>

\* a faulty SpreadWith: the section written holds the one key alone
SpreadWith_Alone(section, name, entries) ==
    <<[name |-> name, entries |-> entries]>>

\* { ...hooksSection, [name]: entries }: a present key keeps its place, a
\* new key goes last
SpreadWith(section, name, entries) ==
    IF HasKey(section, name)
    THEN [i \in 1..Len(section) |->
            IF section[i].name = name
            THEN [name |-> name, entries |-> entries] ELSE section[i]]
    ELSE Append(section, [name |-> name, entries |-> entries])

----------------------------------------------------------------------------
(* genBrainHooksAdapterForClaudeCode.ts *)

\* a faulty SameAuthorCommand: records are told apart by command alone
SameAuthorCommand_CommandOnly(h, author, command) == h.command = command

\* h.author === hook.author && h.command === hook.command
SameAuthorCommand(h, author, command) ==
    h.author = Some(author) /\ h.command = command

\* findIndex by (author, command), then splice when found
RemoveFirstMatch(hooks, author, command) ==
    LET index == FindIndex([i \in 1..Len(hooks) |->
                            SameAuthorCommand(hooks[i], author, command)])
    IN  IF index > 0 THEN Splice(hooks, index) ELSE hooks

\* a faulty DropEmpty: empty grouping entries are kept
DropEmpty_Keeps(entries) == entries

\* entries.filter((e) => e.hooks.length > 0)
DropEmpty(entries) == SelectSeq(entries, LAMBDA e : Len(e.hooks) > 0)

\* a faulty CleanOrphans: no orphan cleanup
CleanOrphans_Skipped(eventHooks, matcher, hook) == eventHooks

\* the orphan cleanup loop of upsert
CleanOrphans(eventHooks, matcher, hook) ==
    [i \in 1..Len(eventHooks) |->
        IF eventHooks[i].matcher = matcher THEN eventHooks[i]
        ELSE [eventHooks[i] EXCEPT
                !.hooks = RemoveFirstMatch(@, hook.author, hook.command)]]

\* a faulty PlaceInTarget: a record found in the target entry is deleted
\* and the new record appended
PlaceInTarget_DeleteThenAppend(eventHooks, matcher, hook, claudeHook) ==
    LET target == FindIndex([i \in 1..Len(eventHooks) |->
                                eventHooks[i].matcher = matcher])
    IN  IF target > 0
        THEN [eventHooks EXCEPT ![target].hooks =
                Append(RemoveFirstMatch(@, hook.author, hook.command),
                       claudeHook)]
        ELSE Append(eventHooks, [matcher |-> matcher, hooks |-> <<claudeHook>>])

\* a faulty PlaceInTarget: a new record goes first in the target entry, a
\* new grouping entry first in the list
PlaceInTarget_Prepends(eventHooks, matcher, hook, claudeHook) ==
    LET target == FindIndex([i \in 1..Len(eventHooks) |->
                                eventHooks[i].matcher = matcher])
        existingInTarget ==
            IF target = 0 THEN 0
            ELSE FindIndex([j \in 1..Len(eventHooks[target].hooks) |->
                    SameAuthorCommand(eventHooks[target].hooks[j],
                                      hook.author, hook.command)])
    IN  IF target > 0 /\ existingInTarget > 0
        THEN [eventHooks EXCEPT ![target].hooks[existingInTarget] = claudeHook]
        ELSE IF target > 0
        THEN [eventHooks EXCEPT ![target].hooks = <<claudeHook>> \o @]
        ELSE <<[matcher |-> matcher, hooks |-> <<claudeHook>>]>> \o eventHooks

\* a faulty PlaceInTarget: the record always gets a grouping entry of its own
PlaceInTarget_NewEntry(eventHooks, matcher, hook, claudeHook) ==
    Append(eventHooks, [matcher |-> matcher, hooks |-> <<claudeHook>>])

\* update in place, append to the target entry, or create the target entry
PlaceInTarget(eventHooks, matcher, hook, claudeHook) ==
    LET target == FindIndex([i \in 1..Len(eventHooks) |->
                                eventHooks[i].matcher = matcher])
        existingInTarget ==
            IF target = 0 THEN 0
            ELSE FindIndex([j \in 1..Len(eventHooks[target].hooks) |->
                    SameAuthorCommand(eventHooks[target].hooks[j],
                                      hook.author, hook.command)])
    IN  IF target > 0 /\ existingInTarget > 0
        THEN [eventHooks EXCEPT ![target].hooks[existingInTarget] = claudeHook]
        ELSE IF target > 0
        THEN [eventHooks EXCEPT ![target].hooks = Append(@, claudeHook)]
        ELSE Append(eventHooks, [matcher |-> matcher, hooks |-> <<claudeHook>>])

\* a faulty upsert: the document written holds the hooks section alone
upsert_HooksOnly(settings, hook) ==
    LET t == translateHookToClaudeCode(hook)
        hooksSection == hooksSectionOf(settings)
        placed == PlaceInTarget(
                    CleanOrphans(eventHooksOf(hooksSection, t.event),
                                 t.matcher, hook),
                    t.matcher, hook, t.hook)
    IN  [ hooks |-> Some(SpreadWith(hooksSection, t.event, DropEmpty(placed))),
          other |-> None ]

\* dao.set.upsert from the settings read to the settings written
upsert(settings, hook) ==
    LET t == translateHookToClaudeCode(hook)
        hooksSection == hooksSectionOf(settings)
        eventHooks == eventHooksOf(hooksSection, t.event)
        cleaned == CleanOrphans(eventHooks, t.matcher, hook)
        placed == PlaceInTarget(cleaned, t.matcher, hook, t.hook)
        filtered == DropEmpty(placed)
    IN  [settings EXCEPT
            !.hooks = Some(SpreadWith(hooksSection, t.event, filtered))]

\* a faulty del: the write is not skipped when nothing changed
del_AlwaysWrites(settings, author, event, command) ==
    LET claudeEvent == EVENT_MAP(event)
        hooksSection == hooksSectionOf(settings)
        removed ==
            [i \in 1..Len(eventHooksOf(hooksSection, claudeEvent)) |->
                [eventHooksOf(hooksSection, claudeEvent)[i] EXCEPT
                    !.hooks = RemoveFirstMatch(@, author, command)]]
    IN  [ didChange |-> TRUE,
          settings |-> [settings EXCEPT
              !.hooks = Some(SpreadWith(hooksSection, claudeEvent,
                                        DropEmpty(removed)))] ]

\* dao.del from the settings read to [didChange, settings to write]
del(settings, author, event, command) ==
    LET claudeEvent == EVENT_MAP(event)
        hooksSection == hooksSectionOf(settings)
        eventHooks == eventHooksOf(hooksSection, claudeEvent)
        didChange ==
            \E i \in 1..Len(eventHooks) : \E j \in 1..Len(eventHooks[i].hooks) :
                SameAuthorCommand(eventHooks[i].hooks[j], author, command)
        removed ==
            [i \in 1..Len(eventHooks) |->
                [eventHooks[i] EXCEPT
                    !.hooks = RemoveFirstMatch(@, author, command)]]
        filtered == DropEmpty(removed)
    IN  [ didChange |-> didChange,
          settings |-> [settings EXCEPT
              !.hooks = Some(SpreadWith(hooksSection, claudeEvent, filtered))] ]

RECURSIVE Flatten(_)
Flatten(ss) == IF ss = <<>> THEN <<>> ELSE Head(ss) \o Flatten(Tail(ss))

\* the hooks of one key of the hooks section, entry after entry
HooksUnder(pair) ==
    Flatten([i \in 1..Len(pair.entries) |->
                translateHookFromClaudeCode(pair.name, pair.entries[i])])

\* dao.get.all without a query
all(f) ==
    LET hooksSection == hooksSectionOf(readClaudeCodeSettings(f))
    IN  Flatten([i \in 1..Len(hooksSection) |-> HooksUnder(hooksSection[i])])

\* `if (query?.by?.author)`: the field is given and is not the empty string
Truthy(field) == field # None /\ field[1] # ""

\* the filters of dao.get.all: one after the other, each applied when its
\* field of the query is truthy
FilterBy(hooks, by) ==
    LET byAuthor ==
            IF Truthy(by.author)
            THEN SelectSeq(hooks, LAMBDA h : h.author = by.author[1])
            ELSE hooks
        byEvent ==
            IF Truthy(by.event)
            THEN SelectSeq(byAuthor, LAMBDA h : h.event = by.event[1])
            ELSE byAuthor
    IN  IF Truthy(by.command)
        THEN SelectSeq(byEvent, LAMBDA h : h.command = by.command[1])
        ELSE byEvent

\* dao.get.all with a query
allBy(f, by) == FilterBy(all(f), by)

\* dao.get.one: the first hook of all() with the key, None for null
one(f, author, event, command) ==
    LET hooks == all(f)
        index == FindIndex([i \in 1..Len(hooks) |->
                    /\ hooks[i].author = author
                    /\ hooks[i].event = event
                    /\ hooks[i].command = command])
    IN  IF index > 0 THEN Some(hooks[index]) ELSE None

----------------------------------------------------------------------------
(* The operations as steps.  Each reads the file, computes, and writes.     *)

\* the abstract map: a set of hooks, at most one per key
NoShadow == {}

\* what the abstract map keeps of an upserted hook: the hook, its timeout
\* in whole seconds
Normalized(h) ==
    [h EXCEPT !.timeout =
        [seconds |-> MathRound(toMilliseconds(h.timeout), 1000),
         milliseconds |-> 0]]

\* the abstract map's hook for key k, None when it has none
ShadowOf(k) ==
    IF \E x \in shadow : KeyOf(x) = k
    THEN Some(CHOOSE x \in shadow : KeyOf(x) = k)
    ELSE None

ShadowWith(h) == {x \in shadow : KeyOf(x) # KeyOf(h)} \cup {Normalized(h)}

ShadowWithout(k) == {x \in shadow : KeyOf(x) # k}

NoOp == [name |-> "none", key |-> None, prior |-> None]

\* the adapter instances made for the one repoPath
Adapters == {"a", "b"}

\* no call is in flight on any adapter, and none has ended
Idle == [pc |-> "idle"]
NoCalls == [a \in Adapters |-> Idle]

\* the operation, its key, and what the abstract map held for the key
Ran(name, k) == [name |-> name, key |-> Some(k), prior |-> ShadowOf(k)]

Write(settings) ==
    LET written == writeClaudeCodeSettings(settings)
    IN  /\ file' = written.file
        /\ dirExists' = written.dirExists

\* the operation `name` ends by the error readClaudeCodeSettings threw:
\* nothing after the read runs
Threw(name) ==
    /\ thrown' = Some("SyntaxError")
    /\ op' = [name |-> name \o ".threw", key |-> None, prior |-> None]
    /\ ret' = None
    /\ left' = left - 1
    /\ UNCHANGED <<file, dirExists, shadow, arg, inflight, log, transport>>

SetUpsert(h) ==
    /\ left > 0
    /\ IF ReadThrows(file) THEN Threw("upsert")
       ELSE /\ Write(upsert(readClaudeCodeSettings(file), h))
            /\ shadow' = ShadowWith(h)
            /\ op' = Ran("upsert", KeyOf(h))
            /\ left' = left - 1
            /\ ret' = Some(h)
            /\ thrown' = None
            /\ UNCHANGED <<arg, inflight, log, transport>>

\* findsert calls upsert and returns its result
SetFindsert(h) ==
    /\ left > 0
    /\ IF ReadThrows(file) THEN Threw("findsert")
       ELSE /\ Write(upsert(readClaudeCodeSettings(file), h))
            /\ shadow' = ShadowWith(h)
            /\ op' = Ran("findsert", KeyOf(h))
            /\ left' = left - 1
            /\ ret' = Some(h)
            /\ thrown' = None
            /\ UNCHANGED <<arg, inflight, log, transport>>

Del(k) ==
    /\ left > 0
    /\ IF ReadThrows(file) THEN Threw("del")
       ELSE /\ LET r == del(readClaudeCodeSettings(file),
                           k.author, k.event, k.command)
               IN  IF r.didChange THEN Write(r.settings)
                   ELSE UNCHANGED <<file, dirExists>>
            /\ shadow' = ShadowWithout(k)
            /\ op' = Ran("del", k)
            /\ left' = left - 1
            /\ ret' = None
            /\ thrown' = None
            /\ UNCHANGED <<arg, inflight, log, transport>>

\* a faulty GetAll: the settings read are written back
GetAll_Writes ==
    /\ left > 0
    /\ IF ReadThrows(file) THEN Threw("get.all")
       ELSE /\ ret' = all(file)
            /\ Write(readClaudeCodeSettings(file))
            /\ op' = [name |-> "get.all", key |-> None, prior |-> None]
            /\ left' = left - 1
            /\ thrown' = None
            /\ UNCHANGED <<shadow, arg, inflight, log, transport>>

GetAll ==
    /\ left > 0
    /\ IF ReadThrows(file) THEN Threw("get.all")
       ELSE /\ ret' = all(file)
            /\ op' = [name |-> "get.all", key |-> None, prior |-> None]
            /\ left' = left - 1
            /\ thrown' = None
            /\ UNCHANGED <<file, dirExists, shadow, arg, inflight, log,
                           transport>>

GetOne(k) ==
    /\ left > 0
    /\ IF ReadThrows(file) THEN Threw("get.one")
       ELSE /\ ret' = one(file, k.author, k.event, k.command)
            /\ op' = Ran("get.one", k)
            /\ left' = left - 1
            /\ thrown' = None
            /\ UNCHANGED <<file, dirExists, shadow, arg, inflight, log,
                           transport>>

GetAllBy(by) ==
    /\ left > 0
    /\ IF ReadThrows(file) THEN Threw("get.all")
       ELSE /\ ret' = allBy(file, by)
            /\ op' = [name |-> "get.all.by", key |-> Some(by), prior |-> None]
            /\ left' = left - 1
            /\ thrown' = None
            /\ UNCHANGED <<file, dirExists, shadow, arg, inflight, log,
                           transport>>

Next ==
    \/ \E h \in Hooks : SetUpsert(h)
    \/ \E h \in Hooks : SetFindsert(h)
    \/ \E k \in Keys : Del(k)
    \/ GetAll
    \/ \E k \in Keys : GetOne(k)

\* the file is missing (the directory too, or not), or holds {}
Init ==
    /\ file \in {Missing, Stored(EmptySettings)}
    /\ dirExists \in (IF file = Missing THEN BOOLEAN ELSE {TRUE})
    /\ shadow = NoShadow
    /\ op = NoOp
    /\ left = MaxOps
    /\ arg = None
    /\ inflight = NoCalls
    /\ log = <<>>
    /\ ret = None
    /\ thrown = None
    /\ transport = 0

Spec == Init /\ [][Next]_vars

----------------------------------------------------------------------------
(* One operation on any settings document, hand-written ones included:     *)
(* several grouping entries per matcher, several records with one          *)
(* (author, command) in an entry, empty entries, records without author,   *)
(* other top-level fields, event keys the adapter does not manage, and a   *)
(* file whose content is not JSON.                                         *)

DriftMatchers == {"*", "Write"}

DriftRecords ==
    { [type |-> "command", command |-> "echo hi", timeout |-> Some(7),
       author |-> Some("repo=x/role=mechanic")],
      [type |-> "command", command |-> "echo hi", timeout |-> None,
       author |-> None],
      [type |-> "command", command |-> "echo bye", timeout |-> Some(0),
       author |-> Some("repo=x/role=mechanic")] }

\* the grouping entries that count for n
DriftEntries(n) ==
    { [matcher |-> m, hooks |-> hs] :
        m \in DriftMatchers,
        hs \in (IF n = 1 THEN {<<>>} ELSE {}) \cup [1..n -> DriftRecords] }

\* the grouping-entry lists whose entries count for n together
RECURSIVE DriftLists(_)
DriftLists(n) ==
    IF n = 0 THEN {<<>>}
    ELSE UNION { { <<e>> \o rest : e \in DriftEntries(k),
                                   rest \in DriftLists(n - k) } : k \in 1..n }

UnmanagedEntries ==
    << [matcher |-> "*",
        hooks |-> << [type |-> "command", command |-> "echo hi",
                      timeout |-> None,
                      author |-> Some("repo=x/role=mechanic")] >>] >>

\* what a document holds besides the managed event: nothing; a permissions
\* block and the event keys PostToolUse and Notification; an event key
\* named like a member of Object.prototype
DriftExtras == {"none", "unmanaged", "prototype"}

DriftSettings(extras, name, entries) ==
    LET managed == <<[name |-> name, entries |-> entries]>>
    IN  CASE extras = "none" ->
                [hooks |-> Some(managed), other |-> None]
          [] extras = "unmanaged" ->
                [hooks |-> Some(<<[name |-> "PostToolUse",
                                   entries |-> UnmanagedEntries]>>
                                \o managed
                                \o <<[name |-> "Notification",
                                      entries |-> UnmanagedEntries]>>),
                 other |-> Some("permissions")]
          [] extras = "prototype" ->
                [hooks |-> Some(managed
                                \o <<[name |-> "constructor",
                                      entries |-> UnmanagedEntries]>>),
                 other |-> None]

DriftDocs ==
    { DriftSettings(x, name, entries) :
        x \in DriftExtras, name \in ManagedEvents,
        entries \in UNION {DriftLists(n) : n \in 0..MaxDrift} }
    \cup {EmptySettings, [hooks |-> None, other |-> Some("permissions")]}

InitDrift ==
    /\ file \in {Missing, Malformed} \cup {Stored(d) : d \in DriftDocs}
    /\ dirExists \in (IF file = Missing THEN BOOLEAN ELSE {TRUE})
    /\ shadow = NoShadow
    /\ op = NoOp
    /\ left = 1
    /\ arg = None
    /\ inflight = NoCalls
    /\ log = <<>>
    /\ ret = None
    /\ thrown = None
    /\ transport = 0

SpecDrift == InitDrift /\ [][Next]_vars

----------------------------------------------------------------------------
(* One upsert on any hand-written list of grouping entries under           *)
(* PreToolUse, the event whose hooks are grouped by tool matcher.          *)

InPlaceDocs ==
    { DriftSettings("none", "PreToolUse", entries) :
        entries \in UNION {DriftLists(n) : n \in 0..MaxDrift} }

NextInPlace == \E h \in Hooks : SetUpsert(h)

InitInPlace ==
    /\ file \in {Stored(d) : d \in InPlaceDocs}
    /\ dirExists = TRUE
    /\ shadow = NoShadow
    /\ op = NoOp
    /\ left = 1
    /\ arg = None
    /\ inflight = NoCalls
    /\ log = <<>>
    /\ ret = None
    /\ thrown = None
    /\ transport = 0

SpecInPlace == InitInPlace /\ [][NextInPlace]_vars

----------------------------------------------------------------------------
(* One query on a document that holds up to two hooks, of any authors,     *)
(* events and commands; the strings of a query may be empty.               *)

QueryHooks == {h \in Hooks : h.filter = None /\ h.timeout.seconds = 1}

QueryDocs ==
    {EmptySettings} \cup
    { upsert(upsert(EmptySettings, h1), h2) : h1 \in QueryHooks, h2 \in QueryHooks }

QueryAuthors == Authors \cup {""}
QueryEvents == Events \cup {""}
QueryCommands == Commands \cup {""}

\* query.by of dao.get.all: every field is optional
Queries ==
    [author : {None} \cup {Some(a) : a \in QueryAuthors},
     event : {None} \cup {Some(e) : e \in QueryEvents},
     command : {None} \cup {Some(c) : c \in QueryCommands}]

\* query.by.unique of dao.get.one
QueryKeys == [author : QueryAuthors, event : QueryEvents, command : QueryCommands]

NextQuery ==
    \/ \E by \in Queries : GetAllBy(by)
    \/ \E k \in QueryKeys : GetOne(k)

InitQuery ==
    /\ file \in {Missing} \cup {Stored(d) : d \in QueryDocs}
    /\ dirExists \in (IF file = Missing THEN BOOLEAN ELSE {TRUE})
    /\ shadow = NoShadow
    /\ op = NoOp
    /\ left = 1
    /\ arg = None
    /\ inflight = NoCalls
    /\ log = <<>>
    /\ ret = None
    /\ thrown = None
    /\ transport = 0

SpecQuery == InitQuery /\ [][NextQuery]_vars

----------------------------------------------------------------------------
(* The translator alone: a hook goes to the vendor format and back.        *)

TranslateAuthors == Authors \cup {""}
TranslateFilters == Filters \cup {Some(""), Some("Write|Edit")}
TranslateTimeouts ==
    Timeouts \cup
    { [seconds |-> 0, milliseconds |-> 500],
      [seconds |-> 1, milliseconds |-> 499],
      [seconds |-> 45, milliseconds |-> 0] }

TranslateHooks ==
    [author : TranslateAuthors, event : Events, command : Commands,
     timeout : TranslateTimeouts, filter : TranslateFilters]

ToVendor ==
    /\ op.name = "none"
    /\ arg # None
    /\ ret' = translateHookToClaudeCode(arg[1])
    /\ op' = [op EXCEPT !.name = "toVendor"]
    /\ UNCHANGED <<file, dirExists, shadow, left, arg, inflight, log, thrown,
                   transport>>

FromVendor ==
    /\ op.name = "toVendor"
    /\ ret' = translateHookFromClaudeCode(
                 ret.event, [matcher |-> ret.matcher, hooks |-> <<ret.hook>>])
    /\ op' = [op EXCEPT !.name = "fromVendor"]
    /\ UNCHANGED <<file, dirExists, shadow, left, arg, inflight, log, thrown,
                   transport>>

NextTranslate == ToVendor \/ FromVendor

InitTranslate ==
    /\ file = Missing
    /\ dirExists = FALSE
    /\ shadow = NoShadow
    /\ op = NoOp
    /\ left = 0
    /\ arg \in {Some(h) : h \in TranslateHooks}
    /\ inflight = NoCalls
    /\ log = <<>>
    /\ ret = None
    /\ thrown = None
    /\ transport = 0

SpecTranslate == InitTranslate /\ [][NextTranslate]_vars

----------------------------------------------------------------------------
(* The two translators applied on their own, each to an input of its own:  *)
(* a hook for translateHookToClaudeCode, a vendor event name and grouping  *)
(* entry for translateHookFromClaudeCode.  Stored timeouts are any         *)
(* number a settings file can hold, zero included.                         *)

ConvertTimeouts ==
    TranslateTimeouts \cup
    { [seconds |-> 0, milliseconds |-> 0],
      [seconds |-> 0, milliseconds |-> 499],
      [seconds |-> 2, milliseconds |-> 500] }

ConvertHooks ==
    [author : Authors, event : Events, command : {"echo hi"},
     timeout : ConvertTimeouts, filter : Filters]

StoredTimeouts == {None, Some(0), Some(1), Some(60)}

ConvertRecords ==
    [type : {"command"}, command : {"echo hi"}, timeout : StoredTimeouts,
     author : {None} \cup {Some(a) : a \in Authors}]

ConvertEntries ==
    [matcher : {"*", "Write"},
     hooks : {<<r>> : r \in ConvertRecords}
             \cup {<<r, q>> : r \in ConvertRecords, q \in ConvertRecords}]

ConvertInputs ==
    {[hook |-> h] : h \in ConvertHooks}
    \cup [event : {"SessionStart", "PreToolUse"}, entry : ConvertEntries]

ConvertTo ==
    /\ op.name = "none"
    /\ "hook" \in DOMAIN arg[1]
    /\ ret' = translateHookToClaudeCode(arg[1].hook)
    /\ op' = [op EXCEPT !.name = "translateHookToClaudeCode"]
    /\ UNCHANGED <<file, dirExists, shadow, left, arg, inflight, log, thrown,
                   transport>>

ConvertFrom ==
    /\ op.name = "none"
    /\ "entry" \in DOMAIN arg[1]
    /\ ret' = translateHookFromClaudeCode(arg[1].event, arg[1].entry)
    /\ op' = [op EXCEPT !.name = "translateHookFromClaudeCode"]
    /\ UNCHANGED <<file, dirExists, shadow, left, arg, inflight, log, thrown,
                   transport>>

NextConvert == ConvertTo \/ ConvertFrom

InitConvert ==
    /\ file = Missing
    /\ dirExists = FALSE
    /\ shadow = NoShadow
    /\ op = NoOp
    /\ left = 0
    /\ arg \in {Some(i) : i \in ConvertInputs}
    /\ inflight = NoCalls
    /\ log = <<>>
    /\ ret = None
    /\ thrown = None
    /\ transport = 0

SpecConvert == InitConvert /\ [][NextConvert]_vars

----------------------------------------------------------------------------
(* The supplier surface: getBrainHooks, genBrainAtom and genBrainRepl.     *)
(* The inference transport (the messages api for an atom, the agent sdk    *)
(* query for a repl) is outside the package: a call to it is counted, and  *)
(* it ends in an output or in an error.                                    *)

SUPPORTED_SPECIFIERS == {"claude", "claude-code", "anthropic/claude/code"}

BrainSpecifiers ==
    SUPPORTED_SPECIFIERS
    \cup {"", "Claude", "claude/code", "claude-code/", "anthropic", "opencode"}

RepoPaths == {"/repo/a", "/repo/b"}

\* a faulty getBrainHooks: the adapter is returned for every specifier
getBrainHooks_Always(brain, repoPath) ==
    Some([slug |-> "claude-code", repoPath |-> repoPath])

\* the adapter genBrainHooksAdapterForClaudeCode({ repoPath }) makes, None
\* for null
getBrainHooks(brain, repoPath) ==
    IF brain \in SUPPORTED_SPECIFIERS
    THEN Some([slug |-> "claude-code", repoPath |-> repoPath])
    ELSE None

AtomSlugs ==
    {"claude/haiku", "claude/sonnet", "claude/opus",
     "claude/haiku/v3.5", "claude/haiku/v4.5", "claude/sonnet/v4",
     "claude/sonnet/v4.5", "claude/opus/v4", "claude/opus/v4.5"}

\* config.model, as the parts between its dashes
CONFIG_BY_ATOM_SLUG(slug) ==
    CASE slug \in {"claude/haiku", "claude/haiku/v4.5"} ->
            <<"claude", "haiku", "4", "5", "20251001">>
      [] slug = "claude/haiku/v3.5" ->
            <<"claude", "3", "5", "haiku", "20241022">>
      [] slug \in {"claude/sonnet", "claude/sonnet/v4.5"} ->
            <<"claude", "sonnet", "4", "5", "20250929">>
      [] slug = "claude/sonnet/v4" ->
            <<"claude", "sonnet", "4", "20250514">>
      [] slug \in {"claude/opus", "claude/opus/v4.5"} ->
            <<"claude", "opus", "4", "5", "20251101">>
      [] slug = "claude/opus/v4" ->
            <<"claude", "opus", "4", "20250514">>

ReplSlugs ==
    {"claude/code", "claude/code/haiku", "claude/code/haiku/v4.5",
     "claude/code/sonnet", "claude/code/sonnet/v4", "claude/code/sonnet/v4.5",
     "claude/code/opus", "claude/code/opus/v4.5"}

CONFIG_BY_REPL_SLUG(slug) ==
    CASE slug = "claude/code" -> CONFIG_BY_ATOM_SLUG("claude/sonnet")
      [] slug = "claude/code/haiku" -> CONFIG_BY_ATOM_SLUG("claude/haiku")
      [] slug = "claude/code/haiku/v4.5" ->
            CONFIG_BY_ATOM_SLUG("claude/haiku/v4.5")
      [] slug = "claude/code/sonnet" -> CONFIG_BY_ATOM_SLUG("claude/sonnet")
      [] slug = "claude/code/sonnet/v4" ->
            CONFIG_BY_ATOM_SLUG("claude/sonnet/v4")
      [] slug = "claude/code/sonnet/v4.5" ->
            CONFIG_BY_ATOM_SLUG("claude/sonnet/v4.5")
      [] slug = "claude/code/opus" -> CONFIG_BY_ATOM_SLUG("claude/opus")
      [] slug = "claude/code/opus/v4.5" ->
            CONFIG_BY_ATOM_SLUG("claude/opus/v4.5")

\* a faulty IncludesHaiku: no model is taken for a haiku model
IncludesHaiku_Never(model) == FALSE

\* config.model.includes('haiku')
IncludesHaiku(model) == \E i \in 1..Len(model) : model[i] = "haiku"

\* `on` of ask and act: nothing, or an episode of one or two exchanges
Continuations ==
    {None} \cup {Some([episode |-> [exchanges |-> n]]) : n \in {1, 2}}

\* how a call to the transport ends
TransportOutcomes == {"success", "failure"}

\* the call to the transport and what follows it: the output is returned,
\* or the transport's error propagates
CallTransport(request, outcome) ==
    /\ transport' = transport + 1
    /\ IF outcome = "success"
       THEN ret' = Some(request) /\ thrown' = None
       ELSE ret' = None /\ thrown' = Some("Error")

BrainOp(name, input) == [name |-> name, key |-> Some(input), prior |-> None]

GetBrainHooks(brain, repoPath) ==
    /\ left > 0
    /\ ret' = getBrainHooks(brain, repoPath)
    /\ thrown' = None
    /\ op' = BrainOp("getBrainHooks", [brain |-> brain, repoPath |-> repoPath])
    /\ left' = left - 1
    /\ UNCHANGED <<file, dirExists, shadow, arg, inflight, log, transport>>

\* genBrainAtom({ slug }).ask({ on, ... })
AtomAsk(slug, on, outcome) ==
    /\ left > 0
    /\ LET model == CONFIG_BY_ATOM_SLUG(slug)
       IN  IF on # None /\ IncludesHaiku(model)
           THEN /\ thrown' = Some("BadRequestError")
                /\ ret' = None
                /\ UNCHANGED transport
           ELSE CallTransport(
                    [model |-> model,
                     messages |-> IF on = None THEN 1
                                  ELSE 2 * on[1].episode.exchanges + 1],
                    outcome)
    /\ op' = BrainOp("atom.ask", [slug |-> slug, on |-> on])
    /\ left' = left - 1
    /\ UNCHANGED <<file, dirExists, shadow, arg, inflight, log>>

\* invokeQuery: the query is made whatever `on` holds
invokeQuery(mode, model, on, outcome) ==
    CallTransport([model |-> model, mode |-> mode], outcome)

\* genBrainRepl({ slug }).ask({ on, ... })
ReplAsk(slug, on, outcome) ==
    /\ left > 0
    /\ invokeQuery("ask", CONFIG_BY_REPL_SLUG(slug), on, outcome)
    /\ op' = BrainOp("repl.ask", [slug |-> slug, on |-> on])
    /\ left' = left - 1
    /\ UNCHANGED <<file, dirExists, shadow, arg, inflight, log>>

\* genBrainRepl({ slug }).act({ on, ... })
ReplAct(slug, on, outcome) ==
    /\ left > 0
    /\ invokeQuery("act", CONFIG_BY_REPL_SLUG(slug), on, outcome)
    /\ op' = BrainOp("repl.act", [slug |-> slug, on |-> on])
    /\ left' = left - 1
    /\ UNCHANGED <<file, dirExists, shadow, arg, inflight, log>>

NextBrains ==
    \/ \E brain \in BrainSpecifiers, repoPath \in RepoPaths :
            GetBrainHooks(brain, repoPath)
    \/ \E slug \in AtomSlugs, on \in Continuations,
            outcome \in TransportOutcomes : AtomAsk(slug, on, outcome)
    \/ \E slug \in ReplSlugs, on \in Continuations,
            outcome \in TransportOutcomes : ReplAsk(slug, on, outcome)
    \/ \E slug \in ReplSlugs, on \in Continuations,
            outcome \in TransportOutcomes : ReplAct(slug, on, outcome)

InitBrains ==
    /\ file = Missing
    /\ dirExists = FALSE
    /\ shadow = NoShadow
    /\ op = NoOp
    /\ left = MaxOps
    /\ arg = None
    /\ inflight = NoCalls
    /\ log = <<>>
    /\ ret = None
    /\ thrown = None
    /\ transport = 0

SpecBrains == InitBrains /\ [][NextBrains]_vars

----------------------------------------------------------------------------
(* genBrainRepl.ts: extractResultFromQuery over the message stream of one  *)
(* query.  A message is an assistant message, a result message of subtype  *)
(* success with its result text and optional structured_output, or a       *)
(* result message of another subtype.  The loop takes one message a step;  *)
(* its locals `result` and `structuredOutput` are kept in op, and left is  *)
(* the number of messages not yet taken from the stream in arg.            *)

\* JSON.parse: the value of a JSON text, None where the parse throws
JSONparse(text) ==
    CASE text = "\"a\"" -> Some("a")
      [] text = "\"b\"" -> Some("b")
      [] OTHER -> None

ResultTexts == {"\"a\"", "\"b\"", "oops"}
StructuredOutputs == {None, Some("s"), Some("a")}

Messages ==
    {[type |-> "assistant"]}
    \cup [type : {"result"}, subtype : {"success"}, result : ResultTexts,
          structured_output : StructuredOutputs]
    \cup [type : {"result"}, subtype : {"error_max_turns"}]

RECURSIVE Streams(_)
Streams(n) ==
    IF n = 0 THEN {<<>>}
    ELSE Streams(n - 1)
         \cup {Append(s, m) : s \in {t \in Streams(n - 1) : Len(t) = n - 1},
                              m \in Messages}

QueryFailed == "Error: claude-agent-sdk query failed"
NoResultMessage == "Error: no result message received from claude-agent-sdk"

\* a faulty outputOf: the parsed result text is preferred
outputOf_ResultFirst(result, structuredOutput) ==
    IF result # None
    THEN IF JSONparse(result[1]) # None
         THEN [output |-> JSONparse(result[1]), thrown |-> None]
         ELSE [output |-> None, thrown |-> Some("SyntaxError")]
    ELSE IF structuredOutput # None
         THEN [output |-> structuredOutput, thrown |-> None]
         ELSE [output |-> None, thrown |-> Some(NoResultMessage)]

\* the output after the loop: structuredOutput when defined, else the
\* parsed result, else an error
outputOf(result, structuredOutput) ==
    IF structuredOutput # None
    THEN [output |-> structuredOutput, thrown |-> None]
    ELSE IF result # None
         THEN IF JSONparse(result[1]) # None
              THEN [output |-> JSONparse(result[1]), thrown |-> None]
              ELSE [output |-> None, thrown |-> Some("SyntaxError")]
         ELSE [output |-> None, thrown |-> Some(NoResultMessage)]

InLoop == "extractResultFromQuery"

\* the loop body on the next message of the stream
ExtractNext ==
    /\ op.name = InLoop
    /\ left > 0
    /\ LET message == arg[1][Len(arg[1]) - left + 1]
           success == message.type = "result" /\ message.subtype = "success"
           failure == message.type = "result" /\ message.subtype # "success"
       IN  /\ op' = IF failure
                    THEN [op EXCEPT !.name = "extractResultFromQuery.threw"]
                    ELSE IF success
                    THEN [op EXCEPT !.result = Some(message.result),
                                    !.structuredOutput =
                                        message.structured_output]
                    ELSE op
           /\ thrown' = IF failure THEN Some(QueryFailed) ELSE None
    /\ left' = left - 1
    /\ UNCHANGED <<file, dirExists, shadow, arg, inflight, log, ret,
                   transport>>

\* the stream has ended: the output is returned, or the error thrown
ExtractEnd ==
    /\ op.name = InLoop
    /\ left = 0
    /\ LET out == outputOf(op.result, op.structuredOutput)
       IN  /\ ret' = out.output
           /\ thrown' = out.thrown
           /\ op' = [op EXCEPT !.name =
                        IF out.thrown = None
                        THEN "extractResultFromQuery.returned"
                        ELSE "extractResultFromQuery.threw"]
    /\ UNCHANGED <<file, dirExists, shadow, left, arg, inflight, log,
                   transport>>

NextExtract == ExtractNext \/ ExtractEnd

InitExtract ==
    /\ file = Missing
    /\ dirExists = FALSE
    /\ shadow = NoShadow
    /\ op = [name |-> InLoop, key |-> None, prior |-> None,
             result |-> None, structuredOutput |-> None]
    /\ arg \in {Some(s) : s \in Streams(MaxStream)}
    /\ inflight = NoCalls
    /\ log = <<>>
    /\ left = Len(arg[1])
    /\ ret = None
    /\ thrown = None
    /\ transport = 0

SpecExtract == InitExtract /\ [][NextExtract]_vars

----------------------------------------------------------------------------
(* Calls that overlap.  Every operation of the adapter awaits              *)
(* readClaudeCodeSettings first and awaits writeClaudeCodeSettings last,   *)
(* if at all; between the two, a call made through the same or another     *)
(* adapter instance of the repoPath may run.  A call is two steps: Begin,  *)
(* the read, and its End, everything after the read.  A call in flight is  *)
(* [pc, name, input, settings, readAt, fileAtRead]: `settings` is the      *)
(* call's local of that name; readAt, the number of writes made when it    *)
(* read, and fileAtRead, the file as it then was, are history.  An entry   *)
(* of log is [adapter, name, input, readAt, wrote, seen], seen the         *)
(* document the call held when it ended.                                   *)

CallHooks ==
    {h \in Hooks : /\ h.command = "echo hi"
                   /\ h.filter = None
                   /\ h.timeout = [seconds |-> 1, milliseconds |-> 600]
                   /\ h.event # "onStop"}

CallKeys == {KeyOf(h) : h \in CallHooks}

Calls ==
    [name : {"upsert"}, input : {Some(h) : h \in CallHooks}]
    \cup [name : {"del", "get.one"}, input : {Some(k) : k \in CallKeys}]
    \cup {[name |-> "get.all", input |-> None]}

\* the writes made by the calls of l
Writes(l) == Cardinality({i \in 1..Len(l) : l[i].wrote})

\* a faulty ReadBy: an adapter that has made a call before answers from
\* the document that call held
ReadBy_Cached(a) ==
    LET mine == SelectSeq(log, LAMBDA e : e.adapter = a)
    IN  IF mine = <<>> THEN readClaudeCodeSettings(file)
        ELSE mine[Len(mine)].seen

\* the read a call of adapter a begins with: of the file and of nothing
\* else, the adapter being its repoPath
ReadBy(a) == readClaudeCodeSettings(file)

\* a faulty settingsOf: the document is read again when the call writes
settingsOf_Reread(c) == readClaudeCodeSettings(file)

\* the local `settings` of a call in flight
settingsOf(c) == c.settings

Begin(a, c) ==
    /\ left > 0
    /\ inflight[a] = Idle
    /\ IF ReadThrows(file) THEN Threw(c.name)
       ELSE /\ inflight' = [inflight EXCEPT ![a] =
                              [pc |-> "read", name |-> c.name,
                               input |-> c.input, settings |-> ReadBy(a),
                               readAt |-> Writes(log), fileAtRead |-> file]]
            /\ left' = left - 1
            /\ UNCHANGED <<file, dirExists, shadow, op, arg, log, ret,
                           thrown, transport>>

\* the call of adapter a ends
Ended(a, wrote, seen) ==
    /\ log' = Append(log, [adapter |-> a, name |-> inflight[a].name,
                           input |-> inflight[a].input,
                           readAt |-> inflight[a].readAt,
                           wrote |-> wrote, seen |-> seen])
    /\ inflight' = [inflight EXCEPT ![a] = Idle]
    /\ thrown' = None
    /\ UNCHANGED <<left, arg, transport>>

EndUpsert(a) ==
    /\ inflight[a] # Idle
    /\ inflight[a].name = "upsert"
    /\ LET hook == inflight[a].input[1]
           settingsUpdated == upsert(settingsOf(inflight[a]), hook)
       IN  /\ Write(settingsUpdated)
           /\ shadow' = ShadowWith(hook)
           /\ op' = Ran("upsert", KeyOf(hook))
           /\ ret' = Some(hook)
           /\ Ended(a, TRUE, settingsUpdated)

EndDel(a) ==
    /\ inflight[a] # Idle
    /\ inflight[a].name = "del"
    /\ LET k == inflight[a].input[1]
           r == del(settingsOf(inflight[a]), k.author, k.event, k.command)
       IN  /\ IF r.didChange THEN Write(r.settings)
              ELSE UNCHANGED <<file, dirExists>>
           /\ shadow' = ShadowWithout(k)
           /\ op' = Ran("del", k)
           /\ ret' = None
           /\ Ended(a, r.didChange,
                    IF r.didChange THEN r.settings
                    ELSE settingsOf(inflight[a]))

EndGetAll(a) ==
    /\ inflight[a] # Idle
    /\ inflight[a].name = "get.all"
    /\ ret' = all(Stored(settingsOf(inflight[a])))
    /\ op' = [name |-> "get.all", key |-> None, prior |-> None]
    /\ Ended(a, FALSE, settingsOf(inflight[a]))
    /\ UNCHANGED <<file, dirExists, shadow>>

EndGetOne(a) ==
    /\ inflight[a] # Idle
    /\ inflight[a].name = "get.one"
    /\ LET k == inflight[a].input[1]
       IN  /\ ret' = one(Stored(settingsOf(inflight[a])),
                         k.author, k.event, k.command)
           /\ op' = Ran("get.one", k)
    /\ Ended(a, FALSE, settingsOf(inflight[a]))
    /\ UNCHANGED <<file, dirExists, shadow>>

NextCalls ==
    \/ \E a \in Adapters, c \in Calls : Begin(a, c)
    \/ \E a \in Adapters : EndUpsert(a)
    \/ \E a \in Adapters : EndDel(a)
    \/ \E a \in Adapters : EndGetAll(a)
    \/ \E a \in Adapters : EndGetOne(a)

InitCalls ==
    /\ file = Missing
    /\ dirExists = FALSE
    /\ shadow = NoShadow
    /\ op = NoOp
    /\ left = MaxCalls
    /\ arg = None
    /\ inflight = NoCalls
    /\ log = <<>>
    /\ ret = None
    /\ thrown = None
    /\ transport = 0

SpecCalls == InitCalls /\ [][NextCalls]_vars

----------------------------------------------------------------------------
(* Properties. *)

\* the grouping entries stored under a vendor event
StoredEntries(f, name) ==
    eventHooksOf(hooksSectionOf(readClaudeCodeSettings(f)), name)

\* the places <<i, j>> of the records with (author, command) in entries
Places(entries, author, command) ==
    { p \in UNION { {<<i, j>> : j \in 1..Len(entries[i].hooks)} :
                        i \in 1..Len(entries) } :
        SameAuthorCommand(entries[p[1]].hooks[p[2]], author, command) }

HasEmptyEntry(entries) == \E i \in 1..Len(entries) : entries[i].hooks = <<>>

\* the hooks get.all returns with key k
Returned(f, k) == SelectSeq(all(f), LAMBDA h : KeyOf(h) = k)

\* the records an author holds for a command under a vendor event, each
\* with the matcher of its grouping entry, in stored order
RecordsOf(f, name, author, command) ==
    LET entries == StoredEntries(f, name)
    IN  Flatten([i \in 1..Len(entries) |->
            LET mine == SelectSeq(entries[i].hooks,
                            LAMBDA r : r.author = Some(author)
                                       /\ r.command = command)
            IN  [j \in 1..Len(mine) |-> <<entries[i].matcher, mine[j]>>]])

\* the records under a vendor event that are not of (author, command),
\* each with the matcher of its grouping entry, in stored order
RecordsBeside(f, name, author, command) ==
    LET entries == StoredEntries(f, name)
    IN  Flatten([i \in 1..Len(entries) |->
            LET others == SelectSeq(entries[i].hooks,
                            LAMBDA r : ~SameAuthorCommand(r, author, command))
            IN  [j \in 1..Len(others) |-> <<entries[i].matcher, others[j]>>]])

\* the matchers of the grouping entries, in stored order
MatchersOf(entries) == [i \in 1..Len(entries) |-> entries[i].matcher]

\* s is t with some elements left out
RECURSIVE IsSubSeq(_, _)
IsSubSeq(s, t) ==
    IF s = <<>> THEN TRUE
    ELSE IF t = <<>> THEN FALSE
    ELSE IF Head(s) = Head(t) THEN IsSubSeq(Tail(s), Tail(t))
    ELSE IsSubSeq(s, Tail(t))

\* a step of an operation, as opposed to a stuttering step
Stepped == left' # left

\* the hook of the upsert or findsert that ran last
LastHook == CHOOSE h \in Hooks : Some(Normalized(h)) = ShadowOf(op.key[1])

----------------------------------------------------------------------------
(* C1: from a missing or empty settings document, after any sequence of   *)
(* upsert, findsert and del calls, get.all returns no two hooks with the   *)
(* same (author, event, command).                                          *)
C1_UniqueKeys ==
    LET hooks == all(file)
    IN  \A i, j \in 1..Len(hooks) : i # j => KeyOf(hooks[i]) # KeyOf(hooks[j])

\* a findsert moved a stored hook to another matcher, beside another hook
C1_Witness ==
    /\ op.name = "findsert"
    /\ op.prior # None
    /\ MatcherOf(op.prior[1].filter) # MatcherOf(ShadowOf(op.key[1])[1].filter)
    /\ Len(all(file)) = 1

(* C2: from a missing document, after any sequence of upsert and del       *)
(* calls, get.all returns exactly the hooks of the abstract map: one per   *)
(* key upserted and not deleted since, with the filter and the whole-      *)
(* second timeout of its latest upsert, and get.one gives null for every   *)
(* other key.                                                              *)
C2_RefinesAbstractMap ==
    /\ Len(all(file)) = Cardinality(shadow)
    /\ \A k \in Keys : one(file, k.author, k.event, k.command) = ShadowOf(k)

(* C3: for every well-formed settings document, after upsert(h) the vendor *)
(* event of h holds exactly one record with h's (author, command), under a *)
(* grouping entry whose matcher is h's target matcher.                     *)
C3_ExactlyOneRepresentation ==
    op.name = "upsert" =>
        LET k == op.key[1]
            entries == StoredEntries(file, EVENT_MAP(k.event))
            places == Places(entries, k.author, k.command)
        IN  /\ Cardinality(places) = 1
            /\ \A p \in places :
                  entries[p[1]].matcher = MatcherOf(ShadowOf(k)[1].filter)

(* C4: an upsert of a stored key with another filter f2 leaves exactly one *)
(* hook with the key in get.all, its filter is f2, and the grouping entry  *)
(* of the former filter's matcher holds no record of that (author,         *)
(* command).                                                               *)
C4_FilterChange ==
    (/\ op.name = "upsert"
     /\ op.prior # None
     /\ op.prior[1].filter # ShadowOf(op.key[1])[1].filter) =>
        LET k == op.key[1]
            entries == StoredEntries(file, EVENT_MAP(k.event))
        IN  /\ Len(Returned(file, k)) = 1
            /\ Returned(file, k)[1].filter = ShadowOf(k)[1].filter
            /\ \A p \in Places(entries, k.author, k.command) :
                  entries[p[1]].matcher # MatcherOf(op.prior[1].filter)

(* C5: upsert is idempotent: for every starting document, upsert(h) again  *)
(* after upsert(h) leaves the document as the first upsert left it.        *)
C5_UpsertIdempotent ==
    op.name = "upsert" =>
        upsert(readClaudeCodeSettings(file), LastHook) = file.doc

(* C6: for every document that holds records with (author, command) under  *)
(* the vendor event, after del no record with (author, command) is left    *)
(* under that event, get.all returns no hook with the key, and the event   *)
(* has no grouping entry with an empty hook list.                          *)
C6_DeleteCrossMatcher ==
    [][ (/\ Stepped
         /\ op'.name = "del"
         /\ Places(StoredEntries(file, EVENT_MAP(op'.key[1].event)),
                   op'.key[1].author, op'.key[1].command) # {}) =>
            LET k == op'.key[1]
                entries == StoredEntries(file', EVENT_MAP(k.event))
            IN  /\ Places(entries, k.author, k.command) = {}
                /\ Returned(file', k) = <<>>
                /\ ~HasEmptyEntry(entries) ]_vars

(* C7: del of a key that matches no stored record writes nothing: the      *)
(* file keeps its content, and a missing file and a missing directory      *)
(* stay missing.                                                           *)
C7_DeleteAbsentWritesNothing ==
    [][ (/\ Stepped
         /\ op'.name = "del"
         /\ Places(StoredEntries(file, EVENT_MAP(op'.key[1].event)),
                   op'.key[1].author, op'.key[1].command) = {}) =>
            (file' = file /\ dirExists' = dirExists) ]_vars

\* a del ran and there is still neither file nor directory
C7_Witness == op.name = "del" /\ file = Missing /\ ~dirExists

(* C8: upsert, findsert and del leave every top-level field other than     *)
(* `hooks` as it was.                                                      *)
C8_OtherFieldsKept ==
    [][ readClaudeCodeSettings(file').other =
            readClaudeCodeSettings(file).other ]_vars

\* an upsert wrote a document that holds a permissions block
C8_Witness ==
    /\ op.name = "upsert"
    /\ file.kind = "json"
    /\ file.doc.other = Some("permissions")

(* C9: event keys the adapter does not manage keep their grouping entries, *)
(* no operation creates such a key, and get.all returns no hook that comes *)
(* from an entry under such a key.                                         *)
C9_UnmanagedEventsUntouched ==
    /\ [][ \A name \in {"PostToolUse", "Notification", "constructor"} :
            LET before == hooksSectionOf(readClaudeCodeSettings(file))
                after == hooksSectionOf(readClaudeCodeSettings(file'))
            IN  /\ HasKey(after, name) = HasKey(before, name)
                /\ eventHooksOf(after, name) = eventHooksOf(before, name) ]_vars
    /\ [](op.name = "get.all" =>
            LET section == hooksSectionOf(readClaudeCodeSettings(file))
                managed == SelectSeq(section,
                              LAMBDA p : p.name \in ManagedEvents)
            IN  ret = Flatten([i \in 1..Len(managed) |->
                                HooksUnder(managed[i])]))

(* C10: translateHookFromClaudeCode of what translateHookToClaudeCode made *)
(* of a hook h returns exactly one hook, with h's author, event, command   *)
(* and filter and h's timeout rounded to whole seconds.                    *)
C10_RoundTrip ==
    op.name = "fromVendor" =>
        ret = << [arg[1] EXCEPT !.timeout = Normalized(arg[1]).timeout] >>

(* C11: get.all with a query returns exactly the hooks of the unfiltered   *)
(* result whose author, event and command equal every field the query      *)
(* supplies, in the same relative order; with no field supplied it returns *)
(* all hooks; an empty result is an empty list and no error.               *)
C11_FilterIsConjunction ==
    op.name = "get.all.by" =>
        LET by == op.key[1]
            Fits(h) ==
                /\ by.author # None => h.author = by.author[1]
                /\ by.event # None => h.event = by.event[1]
                /\ by.command # None => h.command = by.command[1]
        IN  /\ thrown = None
            /\ ret = SelectSeq(all(file), Fits)

(* C12: for every document and every triple of strings, get.one returns    *)
(* the first element of get.all with the three fields as filters, null     *)
(* when that list is empty.                                                *)
C12_OneIsFirstOfAll ==
    op.name = "get.one" =>
        LET k == op.key[1]
            hooks == allBy(file, [author |-> Some(k.author),
                                  event |-> Some(k.event),
                                  command |-> Some(k.command)])
        IN  ret = IF hooks = <<>> THEN None ELSE Some(hooks[1])

C14_MissingFileIsEmpty ==
    [][ (Stepped /\ file = Missing) =>
            /\ thrown' = None
            /\ op'.name = "get.all" =>
                  (ret' = <<>> /\ file' = file /\ dirExists' = dirExists)
            /\ op'.name = "get.one" =>
                  (ret' = None /\ file' = file /\ dirExists' = dirExists)
            /\ op'.name \in {"upsert", "findsert"} =>
                  LET section == hooksSectionOf(readClaudeCodeSettings(file'))
                      hooks == all(file')
                  IN  /\ dirExists' /\ file'.kind = "json"
                      /\ Len(section) = 1
                      /\ Len(section[1].entries) = 1
                      /\ Len(section[1].entries[1].hooks) = 1
                      /\ Len(hooks) = 1
                      /\ KeyOf(hooks[1]) = op'.key[1] ]_vars

\* get.all ran where there is neither file nor directory
C14_Witness ==
    /\ op.name = "get.all"
    /\ file = Missing /\ ~dirExists
    /\ ret = <<>> /\ thrown = None

(* C15: when the settings file holds malformed JSON, every operation ends  *)
(* by the parse error, and the file and the directory are left as they     *)
(* were.                                                                   *)
C15_MalformedPropagates ==
    [][ (Stepped /\ file.kind = "malformed") =>
            /\ thrown' = Some("SyntaxError")
            /\ file' = file
            /\ dirExists' = dirExists ]_vars

\* an upsert ended by the parse error and the file is as it was
C15_Witness ==
    /\ op.name = "upsert.threw"
    /\ thrown = Some("SyntaxError")
    /\ file = Malformed

(* C17: findsert inserts the hook when get.one finds no hook with its key; *)
(* when one is found, with whatever timeout and filter, the stored hook    *)
(* is kept: get.one gives after the findsert what it gave before; either   *)
(* way exactly one hook with the key is left.                              *)
C17_FindsertKeepsFound ==
    [][ (Stepped /\ op'.name = "findsert") =>
            LET k == op'.key[1]
                found == one(file, k.author, k.event, k.command)
            IN  /\ Len(Returned(file', k)) = 1
                /\ found # None =>
                      one(file', k.author, k.event, k.command) = found ]_vars

(* C20: when the first grouping entry with the target matcher holds a      *)
(* record with the hook's (author, command), upsert replaces the first     *)
(* such record at its index: the entry keeps its length and its other      *)
(* records at their indexes, the grouping entries of the event keep their  *)
(* order and none is added, and every record of another (author, command)  *)
(* under the event keeps its matcher and its order.                        *)
C20_UpdateInPlace ==
    [][ (Stepped /\ op'.name = "upsert") =>
            LET k == op'.key[1]
                name == EVENT_MAP(k.event)
                matcher == MatcherOf(ret'[1].filter)
                old == StoredEntries(file, name)
                new == StoredEntries(file', name)
                t == FindIndex(
                        [i \in 1..Len(old) |-> old[i].matcher = matcher])
                u == FindIndex(
                        [i \in 1..Len(new) |-> new[i].matcher = matcher])
                j == IF t = 0 THEN 0
                     ELSE FindIndex([i \in 1..Len(old[t].hooks) |->
                            SameAuthorCommand(old[t].hooks[i],
                                              k.author, k.command)])
            IN  j > 0 =>
                    /\ u > 0
                    /\ Len(new[u].hooks) = Len(old[t].hooks)
                    /\ SameAuthorCommand(new[u].hooks[j], k.author, k.command)
                    /\ \A i \in 1..Len(old[t].hooks) :
                          i # j => new[u].hooks[i] = old[t].hooks[i]
                    /\ IsSubSeq(MatchersOf(new), MatchersOf(old))
                    /\ RecordsBeside(file', name, k.author, k.command)
                          = RecordsBeside(file, name, k.author, k.command) ]_vars

\* an upsert left its record first in a grouping entry, before another record
C20_Witness ==
    /\ op.name = "upsert"
    /\ LET k == op.key[1]
           entries == StoredEntries(file, EVENT_MAP(k.event))
       IN  \E i \in 1..Len(entries) :
              /\ Len(entries[i].hooks) = 2
              /\ SameAuthorCommand(entries[i].hooks[1], k.author, k.command)
              /\ ~SameAuthorCommand(entries[i].hooks[2], k.author, k.command)

(* C16: getBrainHooks returns an adapter with slug 'claude-code' exactly   *)
(* when the brain specifier is 'claude', 'claude-code' or                  *)
(* 'anthropic/claude/code', and null for every other specifier.            *)
C16_AdapterDiscovery ==
    op.name = "getBrainHooks" =>
        IF op.key[1].brain \in {"claude", "claude-code", "anthropic/claude/code"}
        THEN ret # None /\ ret[1].slug = "claude-code"
        ELSE ret = None

\* the adapter was found by the longest of its specifiers
C16_Witness ==
    /\ op.name = "getBrainHooks"
    /\ op.key[1].brain = "anthropic/claude/code"
    /\ ret # None

(* C18: for every repl slug, ask and act with an episode to continue throw *)
(* BadRequestError and make no query.                                      *)
C18_ReplRejectsEpisode ==
    [][ (/\ Stepped
         /\ op'.name \in {"repl.ask", "repl.act"}
         /\ op'.key[1].on # None) =>
            (thrown' = Some("BadRequestError") /\ transport' = transport) ]_vars

(* C19: ask of an atom of a haiku slug with an episode to continue throws  *)
(* BadRequestError and makes no call to the transport; ask without an      *)
(* episode, and ask with an episode of a sonnet or opus atom, make one     *)
(* call to the transport.                                                  *)
C19_HaikuFailsFast ==
    [][ (Stepped /\ op'.name = "atom.ask") =>
            IF /\ op'.key[1].on # None
               /\ op'.key[1].slug \in
                    {"claude/haiku", "claude/haiku/v3.5", "claude/haiku/v4.5"}
            THEN thrown' = Some("BadRequestError") /\ transport' = transport
            ELSE thrown' # Some("BadRequestError")
                    /\ transport' = transport + 1 ]_vars

\* a haiku atom answered without an episode, then refused to continue
C19_Witness ==
    /\ op.name = "atom.ask"
    /\ op.key[1].slug = "claude/haiku"
    /\ op.key[1].on # None
    /\ thrown = Some("BadRequestError")
    /\ transport = 1

(* C21: when the first grouping entry with the target matcher holds no     *)
(* record with the hook's (author, command), upsert appends the new record *)
(* as the last record of that entry; when no grouping entry has the target *)
(* matcher, upsert appends a grouping entry with that matcher and the new  *)
(* record alone as the last entry of the event's list.                     *)
C21_InsertionPosition ==
    [][ (Stepped /\ op'.name = "upsert") =>
            LET k == op'.key[1]
                name == EVENT_MAP(k.event)
                matcher == MatcherOf(ret'[1].filter)
                record == translateHookToClaudeCode(ret'[1]).hook
                old == StoredEntries(file, name)
                new == StoredEntries(file', name)
                t == FindIndex(
                        [i \in 1..Len(old) |-> old[i].matcher = matcher])
                u == FindIndex(
                        [i \in 1..Len(new) |-> new[i].matcher = matcher])
                j == IF t = 0 THEN 0
                     ELSE FindIndex([i \in 1..Len(old[t].hooks) |->
                            SameAuthorCommand(old[t].hooks[i],
                                              k.author, k.command)])
            IN  /\ (t > 0 /\ j = 0) =>
                      (u > 0 /\ new[u].hooks = Append(old[t].hooks, record))
                /\ t = 0 =>
                      /\ new # <<>>
                      /\ new[Len(new)] =
                            [matcher |-> matcher, hooks |-> <<record>>]
                      /\ u = Len(new) ]_vars

\* an upsert left its record last in a grouping entry, after another record
C21_Witness ==
    /\ op.name = "upsert"
    /\ LET k == op.key[1]
           entries == StoredEntries(file, EVENT_MAP(k.event))
       IN  \E i \in 1..Len(entries) :
              /\ Len(entries[i].hooks) = 2
              /\ ~SameAuthorCommand(entries[i].hooks[1], k.author, k.command)
              /\ SameAuthorCommand(entries[i].hooks[2], k.author, k.command)

(* C27: from a missing document, after any sequence of upsert, findsert    *)
(* and del calls, no managed vendor event of the stored document holds a   *)
(* grouping entry with an empty hook list.                                 *)
C27_NoEmptyEntries ==
    \A name \in ManagedEvents : ~HasEmptyEntry(StoredEntries(file, name))

\* a del took the only record of a grouping entry, and the entry with it
C27_Witness ==
    /\ op.name = "del"
    /\ op.prior # None
    /\ file.kind = "json"
    /\ HasKey(hooksSectionOf(file.doc), EVENT_MAP(op.key[1].event))
    /\ StoredEntries(file, EVENT_MAP(op.key[1].event)) = <<>>

(* C28: from a missing document, after any sequence of upsert, findsert    *)
(* and del calls, every managed vendor event holds at most one grouping    *)
(* entry per matcher.                                                      *)
C28_OneEntryPerMatcher ==
    \A name \in ManagedEvents :
        LET entries == StoredEntries(file, name)
        IN  \A i, j \in 1..Len(entries) :
                i # j => entries[i].matcher # entries[j].matcher

\* a second hook joined the grouping entry of its matcher
C28_Witness ==
    /\ op.name = "upsert"
    /\ LET entries == StoredEntries(file, EVENT_MAP(op.key[1].event))
       IN  Len(entries) = 1 /\ Len(entries[1].hooks) = 2

C29_DelRemovesWhatAllReturns ==
    [][ (/\ Stepped
         /\ op'.name = "del"
         /\ Len(Returned(file, op'.key[1])) = 1) =>
            one(file', op'.key[1].author, op'.key[1].event,
                op'.key[1].command) = None ]_vars

(* C30: get.all and get.one never write: the settings file and its         *)
(* directory are after the call what they were before, a missing file and  *)
(* a missing directory included.                                           *)
C30_QueriesReadOnly ==
    [][ (Stepped /\ op'.name \in {"get.all", "get.one", "get.all.threw",
                                    "get.one.threw"}) =>
            (file' = file /\ dirExists' = dirExists) ]_vars

\* get.one ran where there is neither file nor directory
C30_Witness ==
    /\ op.name = "get.one"
    /\ file = Missing /\ ~dirExists
    /\ ret = None

(* C23: translateHookToClaudeCode stores the timeout as the whole number   *)
(* of seconds nearest to the hook's duration and leaves the field out when *)
(* that number is zero; translateHookFromClaudeCode gives { seconds: n }   *)
(* for every record that stores a timeout n, and { seconds: 30 } for every *)
(* record that stores none.                                                *)
C23_TimeoutConversion ==
    /\ op.name = "translateHookToClaudeCode" =>
          LET ms == toMilliseconds(arg[1].hook.timeout)
              t == ret.hook.timeout
          IN  IF t = None THEN 2 * ms <= 1000
              ELSE /\ t[1] > 0
                   /\ 2 * (1000 * t[1] - ms) <= 1000
                   /\ 2 * (ms - 1000 * t[1]) <= 1000
    /\ op.name = "translateHookFromClaudeCode" =>
          /\ Len(ret) = Len(arg[1].entry.hooks)
          /\ \A i \in 1..Len(ret) :
                LET stored == arg[1].entry.hooks[i].timeout
                IN  ret[i].timeout =
                        IF stored = None
                        THEN [seconds |-> DEFAULT_TIMEOUT_SECONDS,
                              milliseconds |-> 0]
                        ELSE [seconds |-> stored[1], milliseconds |-> 0]

\* a result message of a subtype other than success
IsFailure(m) == m.type = "result" /\ m.subtype # "success"

\* a result message of subtype success
IsSuccess(m) == m.type = "result" /\ m.subtype = "success"

(* C26: over the message stream of a query, extractResultFromQuery throws  *)
(* the query-failed error at the first result message whose subtype is not *)
(* success, and takes no message after it; when the stream ends without    *)
(* one, it returns the structured_output of the last success result        *)
(* message when that is defined, else the JSON value of that message's     *)
(* result text, and throws 'no result message received' when the stream    *)
(* held no success result message; messages of other types change nothing. *)
C26_ExtractResult ==
    LET stream == arg[1]
        taken == Len(stream) - left
        successes == SelectSeq(stream, IsSuccess)
    IN  /\ \A i \in 1..taken : IsFailure(stream[i]) => i = taken
        /\ (thrown = Some(QueryFailed))
             <=> (taken > 0 /\ IsFailure(stream[taken]))
        /\ (taken > 0 /\ IsFailure(stream[taken])) =>
               (op.name = "extractResultFromQuery.threw" /\ ret = None)
        /\ (op.name # InLoop /\ thrown # Some(QueryFailed)) =>
              /\ left = 0
              /\ IF successes = <<>>
                 THEN thrown = Some(NoResultMessage) /\ ret = None
                 ELSE LET last == successes[Len(successes)]
                      IN  IF last.structured_output # None
                          THEN /\ ret = last.structured_output
                               /\ thrown = None
                          ELSE IF JSONparse(last.result) # None
                          THEN /\ ret = JSONparse(last.result)
                               /\ thrown = None
                          ELSE /\ ret = None
                               /\ thrown = Some("SyntaxError")

\* a stream of an assistant message and two success result messages, the
\* first with a structured output and the last without: the last one's
\* result text is parsed and returned
C26_Witness ==
    /\ op.name = "extractResultFromQuery.returned"
    /\ arg[1] = << [type |-> "assistant"],
                   [type |-> "result", subtype |-> "success",
                    result |-> "\"b\"", structured_output |-> Some("s")],
                   [type |-> "result", subtype |-> "success",
                    result |-> "\"a\"", structured_output |-> None] >>
    /\ ret = Some("a")

\* the keys of the hooks get.all gives for file f
KeysIn(f) == {KeyOf(all(f)[i]) : i \in 1..Len(all(f))}

(* C24: nothing orders two calls.  When two upserts of hooks with          *)
(* different keys were the only calls on an absent settings file, the      *)
(* file holds the hook of the one that wrote last alone if that one read   *)
(* before the other wrote (the earlier writer's hook is lost), and the     *)
(* hooks of both if it read after.                                         *)
C24_LostUpdate ==
    (/\ Len(log) = 2
     /\ log[1].name = "upsert" /\ log[2].name = "upsert"
     /\ KeyOf(log[1].input[1]) # KeyOf(log[2].input[1])) =>
        KeysIn(file) = IF log[2].readAt = 0
                       THEN {KeyOf(log[2].input[1])}
                       ELSE {KeyOf(log[1].input[1]), KeyOf(log[2].input[1])}

\* two adapters both read the absent file, then both wrote: one hook is left
C24_Witness ==
    /\ Len(log) = 2
    /\ log[1].name = "upsert" /\ log[2].name = "upsert"
    /\ log[1].adapter # log[2].adapter
    /\ KeyOf(log[1].input[1]) # KeyOf(log[2].input[1])
    /\ log[2].readAt = 0
    /\ KeysIn(file) = {KeyOf(log[2].input[1])}

\* the entry of l that made write number n
WriterOf(l, n) ==
    CHOOSE e \in {l[i] : i \in 1..Len(l)} :
        \E i \in 1..Len(l) :
            /\ l[i] = e /\ e.wrote
            /\ Writes(SubSeq(l, 1, i)) = n

(* C25: the adapter keeps nothing between calls.  A call reads the file    *)
(* once, before anything else, and writes it at most once, when it ends;   *)
(* what it returns and what it writes are what the operation gives on the  *)
(* file as it was read and the call's arguments, whatever calls the        *)
(* adapter made before; and a get.all that reads after an upsert wrote,    *)
(* with no write between, returns the upserted hook's key, through         *)
(* whichever adapter instance either call was made.                        *)
C25_Stateless ==
    [][ IF Len(log') = Len(log)
        THEN file' = file /\ dirExists' = dirExists
        ELSE LET e == log'[Len(log')]
                 c == inflight[e.adapter]
                 read == readClaudeCodeSettings(c.fileAtRead)
             IN  /\ c.pc = "read"
                 /\ inflight'[e.adapter] = Idle
                 /\ file' # file => e.wrote
                 /\ e.name = "upsert" =>
                        /\ file' = writeClaudeCodeSettings(
                                       upsert(read, e.input[1])).file
                        /\ ret' = e.input
                 /\ e.name = "del" =>
                        LET r == del(read, e.input[1].author,
                                     e.input[1].event, e.input[1].command)
                        IN  /\ e.wrote = r.didChange
                            /\ file' = IF r.didChange
                                       THEN writeClaudeCodeSettings(
                                                r.settings).file
                                       ELSE file
                 /\ e.name = "get.one" =>
                        /\ file' = file
                        /\ ret' = one(c.fileAtRead, e.input[1].author,
                                      e.input[1].event, e.input[1].command)
                 /\ e.name = "get.all" =>
                        /\ file' = file
                        /\ ret' = all(c.fileAtRead)
                        /\ (/\ e.readAt > 0
                            /\ WriterOf(log, e.readAt).name = "upsert") =>
                               \E i \in 1..Len(ret') :
                                   KeyOf(ret'[i]) =
                                   KeyOf(WriterOf(log, e.readAt).input[1])
      ]_vars

\* a hook upserted through one adapter is returned by get.all of the other
C25_Witness ==
    /\ Len(log) = 2
    /\ log[1].name = "upsert" /\ log[1].adapter = "a"
    /\ log[2].name = "get.all" /\ log[2].adapter = "b"
    /\ log[2].readAt = 1
    /\ Len(ret) = 1
    /\ KeyOf(ret[1]) = KeyOf(log[1].input[1])

====
